---- MODULE Spec2Model ----
(***************************************************************************)
(* User-database synchronisation of the cloud dashboard: the users table   *)
(* kept by AuthDB (auth_db.py) and the two sync endpoints                  *)
(* GET/POST /api/users/sync (dashboard_server_cloud.py).                   *)
(*                                                                         *)
(* Time is counted in ticks; TicksPerSecond ticks make one second.  A      *)
(* timestamp string is a record [k, v]: k is the shape of the text and v   *)
(* the instant it denotes (0 when the text denotes none).                  *)
(*   "null"  SQL NULL / JSON null / Python None                            *)
(*   "empty" the empty string ''                                           *)
(*   "bad"   a non-empty text datetime.fromisoformat rejects               *)
(*   "iso"   'YYYY-MM-DDTHH:MM:SS.ffffff', naive                           *)
(*   "sql"   'YYYY-MM-DD HH:MM:SS' as written by sqlite datetime('now')    *)
(*   "utc"   'YYYY-MM-DDTHH:MM:SS.ffffffZ', timezone aware                 *)
(***************************************************************************)
EXTENDS Integers, Sequences, FiniteSets, TLC

\* ---------------------------------------------------------------- bounds
MaxBatch == 2
TicksPerSecond == 2
MaxSeconds == 2

MaxTime == MaxSeconds * TicksPerSecond

\* ------------------------------------------------------ program constants
SYNC_TOKEN == "test123"
Tolerance == 1

NULL == "NULL"

\* ------------------------------------------------------------- timestamps
NullTs == [k |-> "null", v |-> 0]
EmptyTs == [k |-> "empty", v |-> 0]
BadTs == [k |-> "bad", v |-> 0]
IsoTs(t) == [k |-> "iso", v |-> t]
SqlTs(t) == [k |-> "sql", v |-> t]
UtcTs(t) == [k |-> "utc", v |-> t]

\* Python truthiness of an updated_at value: None and '' are falsy
Truthy(ts) == ts.k \notin {"null", "empty"}

\* datetime.fromisoformat(s.replace('Z', '+00:00')) returns a datetime
Parses(ts) == ts.k \in {"iso", "sql", "utc"}

\* the parsed datetime carries a tzinfo
Aware(ts) == ts.k = "utc"

\* sqlite datetime('now') / CURRENT_TIMESTAMP at clock t: whole seconds
SqlNow(t) == SqlTs((t \div TicksPerSecond) * TicksPerSecond)

Abs(x) == IF x < 0 THEN -x ELSE x

\* ------------------------------------------------------------ users table
Roles == {"paziente", "medico", "admin"}

Columns == {"id", "username", "password_hash", "nome", "cognome", "ruolo",
            "created_at", "last_login", "updated_at"}

\* a row of table users (keyed by id in the table function)
Row(username, password_hash, nome, cognome, ruolo, created_at, last_login, updated_at) ==
  [username |-> username, password_hash |-> password_hash, nome |-> nome,
   cognome |-> cognome, ruolo |-> ruolo, created_at |-> created_at,
   last_login |-> last_login, updated_at |-> updated_at]

\* NOT NULL and CHECK constraints of CREATE TABLE users
RowConstraints(row) ==
  /\ row.username # NULL
  /\ row.password_hash # NULL
  /\ row.nome # NULL
  /\ row.cognome # NULL
  /\ row.ruolo \in Roles

\* username TEXT UNIQUE: no other row of the table carries the username
UsernameFree(db, id, username) ==
  \A j \in DOMAIN db : j # id => db[j].username # username

\* ------------------------------------------------ incoming JSON user dicts
\* user['key'] raises KeyError when the key is absent
Has(user, key) == key \in user.keys

\* user.get('key') for a timestamp field
GetTs(user, key) == IF key \in user.keys THEN user[key] ELSE NullTs

\* ---------------------------------------------------- POST /api/users/sync
\* CompareTimestamps with the tolerance test written diff <= 1
CompareTimestampsInclusive(existing_updated_at, user) ==
  LET incoming_updated == GetTs(user, "updated_at") IN
  IF ~Truthy(incoming_updated) \/ ~Truthy(existing_updated_at)
    THEN "missing_timestamp"
  ELSE IF ~Parses(incoming_updated) \/ ~Parses(existing_updated_at)
    THEN "raise"
  ELSE IF Aware(incoming_updated) # Aware(existing_updated_at)
    THEN "raise"
  ELSE IF Abs(incoming_updated.v - existing_updated_at.v) <= Tolerance * TicksPerSecond
    THEN "no_op"
  ELSE IF incoming_updated.v > existing_updated_at.v
    THEN "update"
  ELSE "local_newer"

\* CompareTimestamps without the tolerance test, written incoming_ts >= existing_ts
CompareTimestampsNoTolerance(existing_updated_at, user) ==
  LET incoming_updated == GetTs(user, "updated_at") IN
  IF ~Truthy(incoming_updated) \/ ~Truthy(existing_updated_at)
    THEN "missing_timestamp"
  ELSE IF ~Parses(incoming_updated) \/ ~Parses(existing_updated_at)
    THEN "raise"
  ELSE IF Aware(incoming_updated) # Aware(existing_updated_at)
    THEN "raise"
  ELSE IF incoming_updated.v >= existing_updated_at.v
    THEN "update"
  ELSE "local_newer"

\* CompareTimestamps with the comparison inverted, written incoming_ts < existing_ts
CompareTimestampsOlderWins(existing_updated_at, user) ==
  LET incoming_updated == GetTs(user, "updated_at") IN
  IF ~Truthy(incoming_updated) \/ ~Truthy(existing_updated_at)
    THEN "missing_timestamp"
  ELSE IF ~Parses(incoming_updated) \/ ~Parses(existing_updated_at)
    THEN "raise"
  ELSE IF Aware(incoming_updated) # Aware(existing_updated_at)
    THEN "raise"
  ELSE IF Abs(incoming_updated.v - existing_updated_at.v) < Tolerance * TicksPerSecond
    THEN "no_op"
  ELSE IF incoming_updated.v < existing_updated_at.v
    THEN "update"
  ELSE "local_newer"

\* CompareTimestamps that skips a record whose timestamps do not parse or
\* cannot be subtracted instead of raising
CompareTimestampsLenient(existing_updated_at, user) ==
  LET incoming_updated == GetTs(user, "updated_at") IN
  IF ~Truthy(incoming_updated) \/ ~Truthy(existing_updated_at)
    THEN "missing_timestamp"
  ELSE IF ~Parses(incoming_updated) \/ ~Parses(existing_updated_at)
    THEN "no_op"
  ELSE IF Aware(incoming_updated) # Aware(existing_updated_at)
    THEN "no_op"
  ELSE IF Abs(incoming_updated.v - existing_updated_at.v) < Tolerance * TicksPerSecond
    THEN "no_op"
  ELSE IF incoming_updated.v > existing_updated_at.v
    THEN "update"
  ELSE "local_newer"

\* lines 1264-1284 and 1298: the comparison of the two updated_at values.
\* "raise" stands for an exception raised inside the try block.
CompareTimestamps(existing_updated_at, user) ==
  LET incoming_updated == GetTs(user, "updated_at") IN
  IF ~Truthy(incoming_updated) \/ ~Truthy(existing_updated_at)
    THEN "missing_timestamp"
  ELSE IF ~Parses(incoming_updated) \/ ~Parses(existing_updated_at)
    THEN "raise"
  ELSE IF Aware(incoming_updated) # Aware(existing_updated_at)
    THEN "raise"
  ELSE IF Abs(incoming_updated.v - existing_updated_at.v) < Tolerance * TicksPerSecond
    THEN "no_op"
  ELSE IF incoming_updated.v > existing_updated_at.v
    THEN "update"
  ELSE "local_newer"

\* UpdatedRow with created_at and updated_at exchanged in the parameter tuple
UpdatedRowSwapped(user) ==
  Row(user.username, user.password_hash, user.nome, user.cognome, user.ruolo,
      user.updated_at, GetTs(user, "last_login"), GetTs(user, "created_at"))

\* the row written by the UPDATE statement of lines 1286-1295
UpdatedRow(user) ==
  Row(user.username, user.password_hash, user.nome, user.cognome, user.ruolo,
      GetTs(user, "created_at"), GetTs(user, "last_login"), user.updated_at)

\* the UPDATE of lines 1286-1295 completes: its parameters exist and the
\* statement violates no constraint
UpdateSucceeds(db, user) ==
  /\ {"username", "password_hash", "nome", "cognome", "ruolo"} \subseteq user.keys
  /\ RowConstraints(UpdatedRow(user))
  /\ UsernameFree(db, user.id, user.username)

\* InsertedRow with updated_at left out of the column list
InsertedRowNoTimestamp(user) ==
  Row(user.username, user.password_hash, user.nome, user.cognome, user.ruolo,
      GetTs(user, "created_at"), GetTs(user, "last_login"), NullTs)

\* the row written by the INSERT statement of lines 1319-1326
InsertedRow(user) ==
  Row(user.username, user.password_hash, user.nome, user.cognome, user.ruolo,
      GetTs(user, "created_at"), GetTs(user, "last_login"), GetTs(user, "updated_at"))

\* InsertSucceeds on a table whose username column is not UNIQUE
InsertSucceedsNoUnique(db, user) ==
  /\ {"username", "password_hash", "nome", "cognome", "ruolo"} \subseteq user.keys
  /\ RowConstraints(InsertedRow(user))

\* the INSERT of lines 1319-1326 completes
InsertSucceeds(db, user) ==
  /\ {"username", "password_hash", "nome", "cognome", "ruolo"} \subseteq user.keys
  /\ RowConstraints(InsertedRow(user))
  /\ UsernameFree(db, user.id, user.username)

\* Decide with the test for a missing updated_at placed before the lookup
\* of the id, so that it also covers ids the table does not hold
DecideTimestampFirst(db, user) ==
  IF ~Has(user, "id") THEN "abort"
  ELSE IF user.id \in DOMAIN db THEN
    LET cmp == CompareTimestamps(db[user.id].updated_at, user)
        tried == IF cmp = "update"
                   THEN IF UpdateSucceeds(db, user) THEN "update" ELSE "raise"
                 ELSE IF cmp \in {"missing_timestamp", "local_newer"}
                   THEN IF Has(user, "username") THEN cmp ELSE "raise"
                 ELSE cmp
    IN IF tried = "raise"
         THEN IF Has(user, "username") THEN "timestamp_parse_error" ELSE "abort"
         ELSE tried
  ELSE IF ~Truthy(GetTs(user, "updated_at"))
    THEN IF Has(user, "username") THEN "missing_timestamp" ELSE "abort"
  ELSE IF InsertSucceeds(db, user) THEN "insert" ELSE "abort"

\* the decision taken for one record of the batch against the table db of
\* the open transaction (lines 1255-1328).  "abort" stands for an exception
\* that leaves the for loop and reaches the handler of line 1344.
Decide(db, user) ==
  IF ~Has(user, "id") THEN "abort"
  ELSE IF user.id \in DOMAIN db THEN
    LET cmp == CompareTimestamps(db[user.id].updated_at, user)
        tried == IF cmp = "update"
                   THEN IF UpdateSucceeds(db, user) THEN "update" ELSE "raise"
                 ELSE IF cmp \in {"missing_timestamp", "local_newer"}
                   THEN IF Has(user, "username") THEN cmp ELSE "raise"
                 ELSE cmp
    IN IF tried = "raise"
         THEN IF Has(user, "username") THEN "timestamp_parse_error" ELSE "abort"
         ELSE tried
  ELSE IF InsertSucceeds(db, user) THEN "insert" ELSE "abort"

\* Apply with an UPDATE that leaves the password_hash column out
ApplyPartial(db, user, dec) ==
  IF dec = "update"
    THEN [db EXCEPT ![user.id] =
            [UpdatedRow(user) EXCEPT !.password_hash = db[user.id].password_hash]]
  ELSE IF dec = "insert"
    THEN [j \in DOMAIN db \cup {user.id} |->
            IF j = user.id THEN InsertedRow(user) ELSE db[j]]
  ELSE db

\* the table of the open transaction after the record has been processed
Apply(db, user, dec) ==
  IF dec = "update" THEN [db EXCEPT ![user.id] = UpdatedRow(user)]
  ELSE IF dec = "insert"
    THEN [j \in DOMAIN db \cup {user.id} |->
            IF j = user.id THEN InsertedRow(user) ELSE db[j]]
  ELSE db

ConflictReasons == {"missing_timestamp", "local_newer", "timestamp_parse_error"}

\* the rows with the given id, as a set of at most one row
RowsOf(db, id) == IF id \in DOMAIN db THEN {db[id]} ELSE {}

\* MergeLoop with updated += 1 placed before the UPDATE statement, so that a
\* refused UPDATE is counted too
RECURSIVE MergeLoopCountingEarly(_, _, _)
MergeLoopCountingEarly(acc, users_in, i) ==
  IF i > Len(users_in) \/ acc.aborted THEN acc
  ELSE
    LET user == users_in[i]
        dec == Decide(acc.db, user)
        db2 == Apply(acc.db, user, dec)
        uid == IF Has(user, "id") THEN user.id ELSE 0
        step == [dec |-> dec, id |-> uid,
                 existed |-> uid \in DOMAIN acc.db,
                 before |-> RowsOf(acc.db, uid),
                 others |-> {acc.db[j].username : j \in DOMAIN acc.db \ {uid}},
                 after |-> RowsOf(db2, uid)]
    IN MergeLoopCountingEarly(
         [db |-> db2,
          updated |-> acc.updated +
                        (IF dec \in {"update", "timestamp_parse_error"} THEN 1 ELSE 0),
          inserted |-> acc.inserted + (IF dec = "insert" THEN 1 ELSE 0),
          conflicts |-> IF dec \in ConflictReasons
                          THEN Append(acc.conflicts,
                                 [id |-> user.id, username |-> user.username, reason |-> dec])
                          ELSE acc.conflicts,
          steps |-> Append(acc.steps, step),
          aborted |-> dec = "abort"],
         users_in, i + 1)

\* the for loop of lines 1254-1328 over users[i..]; acc is the state of the
\* request: the uncommitted table, the counters, the conflicts list and, for
\* every record processed, the decision with the stored row before and after
RECURSIVE MergeLoop(_, _, _)
MergeLoop(acc, users_in, i) ==
  IF i > Len(users_in) \/ acc.aborted THEN acc
  ELSE
    LET user == users_in[i]
        dec == Decide(acc.db, user)
        db2 == Apply(acc.db, user, dec)
        uid == IF Has(user, "id") THEN user.id ELSE 0
        step == [dec |-> dec, id |-> uid,
                 existed |-> uid \in DOMAIN acc.db,
                 before |-> RowsOf(acc.db, uid),
                 others |-> {acc.db[j].username : j \in DOMAIN acc.db \ {uid}},
                 after |-> RowsOf(db2, uid)]
    IN MergeLoop(
         [db |-> db2,
          updated |-> acc.updated + (IF dec = "update" THEN 1 ELSE 0),
          inserted |-> acc.inserted + (IF dec = "insert" THEN 1 ELSE 0),
          conflicts |-> IF dec \in ConflictReasons
                          THEN Append(acc.conflicts,
                                 [id |-> user.id, username |-> user.username, reason |-> dec])
                          ELSE acc.conflicts,
          steps |-> Append(acc.steps, step),
          aborted |-> dec = "abort"],
         users_in, i + 1)

\* verify_sync_token that lets a request without the header pass
verify_sync_token_lax(token) == token = SYNC_TOKEN \/ token = NULL

\* verify_sync_token
verify_sync_token(token) == token = SYNC_TOKEN

NoResponse ==
  [status |-> 0, opened |-> FALSE, updated |-> 0, inserted |-> 0,
   conflicts |-> <<>>, steps |-> <<>>, users |-> {}, count |-> 0]

\* receive_users_for_sync with conn.commit() in a finally clause, so that the
\* writes made before an exception are kept
receive_users_for_sync_committing(db, token, users_in) ==
  IF ~verify_sync_token(token)
    THEN [db |-> db, resp |-> [NoResponse EXCEPT !.status = 401]]
  ELSE IF users_in = <<>>
    THEN [db |-> db, resp |-> [NoResponse EXCEPT !.status = 400]]
  ELSE
    LET acc == MergeLoop([db |-> db, updated |-> 0, inserted |-> 0,
                          conflicts |-> <<>>, steps |-> <<>>, aborted |-> FALSE],
                         users_in, 1)
    IN IF acc.aborted
         THEN [db |-> acc.db,
               resp |-> [NoResponse EXCEPT !.status = 500, !.opened = TRUE,
                                           !.steps = acc.steps]]
         ELSE [db |-> acc.db,
               resp |-> [NoResponse EXCEPT !.status = 200, !.opened = TRUE,
                                           !.updated = acc.updated,
                                           !.inserted = acc.inserted,
                                           !.conflicts = acc.conflicts,
                                           !.steps = acc.steps]]

\* receive_users_for_sync without the test of line 1244
receive_users_for_sync_unchecked(db, token, users_in) ==
  IF ~verify_sync_token(token)
    THEN [db |-> db, resp |-> [NoResponse EXCEPT !.status = 401]]
  ELSE
    LET acc == MergeLoop([db |-> db, updated |-> 0, inserted |-> 0,
                          conflicts |-> <<>>, steps |-> <<>>, aborted |-> FALSE],
                         users_in, 1)
    IN IF acc.aborted
         THEN [db |-> db,
               resp |-> [NoResponse EXCEPT !.status = 500, !.opened = TRUE,
                                           !.steps = acc.steps]]
         ELSE [db |-> acc.db,
               resp |-> [NoResponse EXCEPT !.status = 200, !.opened = TRUE,
                                           !.updated = acc.updated,
                                           !.inserted = acc.inserted,
                                           !.conflicts = acc.conflicts,
                                           !.steps = acc.steps]]

\* receive_users_for_sync: the table after the request and the response.
\* opened tells whether the handler connected to users.db.
receive_users_for_sync(db, token, users_in) ==
  IF ~verify_sync_token(token)
    THEN [db |-> db, resp |-> [NoResponse EXCEPT !.status = 401]]
  ELSE IF users_in = <<>>
    THEN [db |-> db, resp |-> [NoResponse EXCEPT !.status = 400]]
  ELSE
    LET acc == MergeLoop([db |-> db, updated |-> 0, inserted |-> 0,
                          conflicts |-> <<>>, steps |-> <<>>, aborted |-> FALSE],
                         users_in, 1)
    IN IF acc.aborted
         THEN [db |-> db,
               resp |-> [NoResponse EXCEPT !.status = 500, !.opened = TRUE,
                                           !.steps = acc.steps]]
         ELSE [db |-> acc.db,
               resp |-> [NoResponse EXCEPT !.status = 200, !.opened = TRUE,
                                           !.updated = acc.updated,
                                           !.inserted = acc.inserted,
                                           !.conflicts = acc.conflicts,
                                           !.steps = acc.steps]]

\* ------------------------------------------------------ GET /api/users/sync
\* a row as the dict SELECT * yields for it
RowDict(db, id) ==
  [keys |-> Columns, id |-> id, username |-> db[id].username,
   password_hash |-> db[id].password_hash, nome |-> db[id].nome,
   cognome |-> db[id].cognome, ruolo |-> db[id].ruolo,
   created_at |-> db[id].created_at, last_login |-> db[id].last_login,
   updated_at |-> db[id].updated_at]

\* get_users_for_sync selecting every column but password_hash
get_users_for_sync_redacted(db, token) ==
  IF ~verify_sync_token(token)
    THEN [NoResponse EXCEPT !.status = 401]
    ELSE [NoResponse EXCEPT !.status = 200, !.opened = TRUE,
                            !.users = {[RowDict(db, id) EXCEPT
                                          !.keys = @ \ {"password_hash"},
                                          !.password_hash = NULL] : id \in DOMAIN db},
                            !.count = Cardinality(DOMAIN db)]

\* get_users_for_sync: the response
get_users_for_sync(db, token) ==
  IF ~verify_sync_token(token)
    THEN [NoResponse EXCEPT !.status = 401]
    ELSE [NoResponse EXCEPT !.status = 200, !.opened = TRUE,
                            !.users = {RowDict(db, id) : id \in DOMAIN db},
                            !.count = Cardinality(DOMAIN db)]

\* ---------------------------------------------------------------- AuthDB
MaxId(db) == IF DOMAIN db = {} THEN 0 ELSE CHOOSE m \in DOMAIN db : \A j \in DOMAIN db : j <= m

\* the id an INSERT without id receives (INTEGER PRIMARY KEY AUTOINCREMENT)
NextId(db, sequence) == (IF MaxId(db) > sequence THEN MaxId(db) ELSE sequence) + 1

\* bcrypt, as a fixed map from the passwords in use to their hashes
hash_password(password) ==
  IF password = "admin123" THEN "hashA"
  ELSE IF password = "secret" THEN "hashL"
  ELSE "hashN"

verify_password(password, password_hash) == hash_password(password) = password_hash

\* init_database on a table that has the updated_at column: the default
\* admin is inserted without updated_at when no row has role admin
init_database(db, sequence, t) ==
  IF \E j \in DOMAIN db : db[j].ruolo = "admin" THEN db
  ELSE [j \in DOMAIN db \cup {NextId(db, sequence)} |->
          IF j \in DOMAIN db THEN db[j]
          ELSE Row("admin", hash_password("admin123"), "Admin", "System", "admin",
                   SqlNow(t), NullTs, NullTs)]

\* the INSERT of the default admin violates UNIQUE(username): no row has
\* role admin, yet a row is called admin
init_database_raises(db) ==
  /\ \A j \in DOMAIN db : db[j].ruolo # "admin"
  /\ \E j \in DOMAIN db : db[j].username = "admin"

\* fix_null_updated_at with SET updated_at = created_at
fix_null_updated_at_from_created(db, t) ==
  [j \in DOMAIN db |->
     IF db[j].updated_at = NullTs
       THEN [db[j] EXCEPT !.updated_at = db[j].created_at]
       ELSE db[j]]

\* fix_null_updated_at: COALESCE(created_at, datetime('now')) where updated_at IS NULL
fix_null_updated_at(db, t) ==
  [j \in DOMAIN db |->
     IF db[j].updated_at = NullTs
       THEN [db[j] EXCEPT !.updated_at =
               IF db[j].created_at # NullTs THEN db[j].created_at ELSE SqlNow(t)]
       ELSE db[j]]

\* register_user: the table afterwards and whether the call succeeded
register_user(db, sequence, t, username, password, nome, cognome, ruolo) ==
  IF ruolo \notin Roles THEN [db |-> db, success |-> FALSE]
  ELSE IF \E j \in DOMAIN db : db[j].username = username
    THEN [db |-> db, success |-> FALSE]
  ELSE [db |-> [j \in DOMAIN db \cup {NextId(db, sequence)} |->
                  IF j \in DOMAIN db THEN db[j]
                  ELSE Row(username, hash_password(password), nome, cognome, ruolo,
                           SqlNow(t), NullTs, SqlNow(t))],
        success |-> TRUE]

\* login whose UPDATE also sets updated_at = datetime('now')
login_touching(db, sess, t, username, password) ==
  IF ~\E j \in DOMAIN db : db[j].username = username
    THEN [db |-> db, sessions |-> sess, success |-> FALSE]
  ELSE
    LET id == CHOOSE j \in DOMAIN db : db[j].username = username IN
    IF ~verify_password(password, db[id].password_hash)
      THEN [db |-> db, sessions |-> sess, success |-> FALSE]
      ELSE [db |-> [db EXCEPT ![id].last_login = SqlNow(t), ![id].updated_at = SqlNow(t)],
            sessions |-> Append(sess, id), success |-> TRUE]

\* login: the tables afterwards and whether the call succeeded
login(db, sess, t, username, password) ==
  IF ~\E j \in DOMAIN db : db[j].username = username
    THEN [db |-> db, sessions |-> sess, success |-> FALSE]
  ELSE
    LET id == CHOOSE j \in DOMAIN db : db[j].username = username IN
    IF ~verify_password(password, db[id].password_hash)
      THEN [db |-> db, sessions |-> sess, success |-> FALSE]
      ELSE [db |-> [db EXCEPT ![id].last_login = SqlNow(t)],
            sessions |-> Append(sess, id), success |-> TRUE]

\* update_user without the updated_at = datetime('now') assignment
update_user_keeping_timestamp(db, t, user_id, nome, cognome, ruolo, new_password) ==
  IF ruolo # NULL /\ ruolo \notin Roles THEN [db |-> db, success |-> FALSE]
  ELSE IF nome = NULL /\ cognome = NULL /\ ruolo = NULL /\ new_password = NULL
    THEN [db |-> db, success |-> FALSE]
  ELSE IF user_id \notin DOMAIN db THEN [db |-> db, success |-> FALSE]
  ELSE [db |-> [db EXCEPT ![user_id] =
                  [@ EXCEPT !.nome = IF nome # NULL THEN nome ELSE @,
                            !.cognome = IF cognome # NULL THEN cognome ELSE @,
                            !.ruolo = IF ruolo # NULL THEN ruolo ELSE @,
                            !.password_hash = IF new_password # NULL
                                                THEN hash_password(new_password) ELSE @]],
        success |-> TRUE]

\* update_user; an argument that is NULL was not given
update_user(db, t, user_id, nome, cognome, ruolo, new_password) ==
  IF ruolo # NULL /\ ruolo \notin Roles THEN [db |-> db, success |-> FALSE]
  ELSE IF nome = NULL /\ cognome = NULL /\ ruolo = NULL /\ new_password = NULL
    THEN [db |-> db, success |-> FALSE]
  ELSE IF user_id \notin DOMAIN db THEN [db |-> db, success |-> FALSE]
  ELSE [db |-> [db EXCEPT ![user_id] =
                  [@ EXCEPT !.nome = IF nome # NULL THEN nome ELSE @,
                            !.cognome = IF cognome # NULL THEN cognome ELSE @,
                            !.ruolo = IF ruolo # NULL THEN ruolo ELSE @,
                            !.password_hash = IF new_password # NULL
                                                THEN hash_password(new_password) ELSE @,
                            !.updated_at = SqlNow(t)]],
        success |-> TRUE]

\* delete_user, run to completion on one connection
delete_user(db, user_id) ==
  LET admin_count == Cardinality({j \in DOMAIN db : db[j].ruolo = "admin"}) IN
  IF user_id \notin DOMAIN db THEN [db |-> db, success |-> FALSE]
  ELSE IF db[user_id].ruolo = "admin" /\ admin_count <= 1
    THEN [db |-> db, success |-> FALSE]
  ELSE [db |-> [j \in DOMAIN db \ {user_id} |-> db[j]], success |-> TRUE]

\* ------------------------------------------------------------------ state
VARIABLES
  users,     \* table users of this node: id -> row
  sessions,  \* table sessions of this node: sequence of user ids
  now,       \* wall clock of this node, in ticks
  seq,       \* sqlite_sequence of table users: the largest id ever stored
  req,       \* the last sync request received: [op, token, batch]
  resp,      \* the response to it
  peer,      \* table users of the peer node
  users0,    \* table users when the scenario under check began
  pc,        \* progress of the scenario under check
  txn,       \* the POST /api/users/sync request a thread is working on
  sched,     \* the sync scheduler of this node
  deleting   \* the delete_user calls the request threads are working on

vars == <<users, sessions, now, seq, req, resp, peer, users0, pc, txn, sched, deleting>>

\* the locals of receive_users_for_sync between two statements: i is the
\* index of the record the for loop is at, selected tells whether the SELECT
\* of line 1256 has run for it and existing what it fetched, writing whether
\* the connection has begun its write transaction and db the table as that
\* transaction sees it
NoTxn ==
  [i |-> 0, selected |-> FALSE, existing |-> {}, writing |-> FALSE, db |-> <<>>,
   updated |-> 0, inserted |-> 0, conflicts |-> <<>>, steps |-> <<>>]

\* the scheduler: running counts the cycles under way, due tells whether
\* the interval has fired since the last cycle started, phase is the step
\* the cycle under way is at and outcome how the last finished cycle ended
NoSched == [running |-> 0, due |-> FALSE, phase |-> "idle", outcome |-> "none"]

\* the request threads that serve DELETE /api/auth/users/<id>
Threads == {1, 2}

\* the locals of delete_user between two statements
NoDelete ==
  [at |-> "idle", user_id |-> 0, admin_count |-> 0, ruolo |-> {}, result |-> "none"]

NoDeleting == [t \in Threads |-> NoDelete]

\* ----------------------------------------------------------- input domains
\* the instant local rows were last written in the merge scenarios
Mid == (MaxSeconds \div 2) * TicksPerSecond

\* a row written on this node
LocalRow(username, ruolo, updated_at) ==
  Row(username, "hashL", "nomeL", "cognomeL", ruolo, SqlTs(0), NullTs, updated_at)

\* a complete user dict as the peer serialises one of its rows
Remote(id, username, updated_at) ==
  [keys |-> Columns, id |-> id, username |-> username, password_hash |-> "hashR",
   nome |-> "nomeR", cognome |-> "cognomeR", ruolo |-> "medico",
   created_at |-> IsoTs(1), last_login |-> IsoTs(1), updated_at |-> updated_at]

\* the dict without one of its keys
Without(user, key) == [user EXCEPT !.keys = @ \ {key}]

RecordsIn ==
  {Remote(1, "admin", IsoTs(t)) : t \in 0..MaxTime}
  \cup {Remote(1, "admin", ts) : ts \in {NullTs, EmptyTs, BadTs, UtcTs(MaxTime)}}
  \cup {Remote(1, "bob", IsoTs(MaxTime)),
        Remote(2, "carol", IsoTs(MaxTime)),
        Remote(2, "bob", NullTs),
        Remote(2, "admin", IsoTs(0)),
        Without(Remote(1, "admin", IsoTs(0)), "username"),
        Without(Remote(2, "bob", IsoTs(MaxTime)), "password_hash"),
        Without(Remote(2, "bob", IsoTs(MaxTime)), "id")}

RECURSIVE SeqsUpTo(_, _)
SeqsUpTo(S, n) ==
  IF n = 0 THEN {<<>>}
  ELSE LET shorter == SeqsUpTo(S, n - 1)
       IN shorter \cup {Append(b, x) : b \in {c \in shorter : Len(c) = n - 1}, x \in S}

Batches == SeqsUpTo(RecordsIn, MaxBatch)

\* tables the node can hold when a batch arrives
Stores ==
  LET row1 == {<<>>} \cup {<<LocalRow("admin", "admin", ts)>> :
                              ts \in {SqlTs(Mid), NullTs, BadTs, UtcTs(Mid)}}
      row2 == {<<>>, <<LocalRow("bob", "paziente", SqlTs(Mid))>>}
  IN {[j \in (IF r1 = <<>> THEN {} ELSE {1}) \cup (IF r2 = <<>> THEN {} ELSE {2}) |->
         IF j = 1 THEN r1[1] ELSE r2[1]] : r1 \in row1, r2 \in row2}


\* ------------------------------------------- one batch, submitted twice
InitMerge ==
  /\ users \in Stores
  /\ sessions = <<>>
  /\ now = MaxTime
  /\ seq = MaxId(users)
  /\ req \in {[op |-> "POST", token |-> SYNC_TOKEN, batch |-> b] : b \in Batches}
  /\ resp = NoResponse
  /\ peer = <<>>
  /\ users0 = users
  /\ pc = "ready"
  /\ txn = NoTxn
  /\ sched = NoSched
  /\ deleting = NoDeleting

\* POST /api/users/sync with the batch of req
Submit ==
  /\ pc = "ready"
  /\ LET out == receive_users_for_sync(users, req.token, req.batch)
     IN /\ users' = out.db
        /\ resp' = out.resp
        /\ seq' = IF MaxId(out.db) > seq THEN MaxId(out.db) ELSE seq
  /\ pc' = "once"
  /\ UNCHANGED <<sched, deleting, txn, sessions, now, req, peer, users0>>

\* the peer posts the same batch again, no other write in between
Resubmit ==
  /\ pc = "once"
  /\ LET out == receive_users_for_sync(users, req.token, req.batch)
     IN /\ users' = out.db
        /\ resp' = out.resp
        /\ seq' = IF MaxId(out.db) > seq THEN MaxId(out.db) ELSE seq
  /\ pc' = "twice"
  /\ UNCHANGED <<sched, deleting, txn, sessions, now, req, peer, users0>>

NextMerge == Submit \/ Resubmit

SpecMerge == InitMerge /\ [][NextMerge]_vars

\* ------------------------------------------------------- one node at work
MaxRowId == 2
MaxSessions == 1

Tokens == {SYNC_TOKEN, "wrong", NULL}

\* the table users.db holds when the process starts: empty, or rows written
\* before the updated_at column was added
PriorTables ==
  {<<>>,
   <<Row("admin", hash_password("admin123"), "Admin", "System", "admin",
         SqlTs(0), NullTs, NullTs)>>,
   <<Row("bob", hash_password("secret"), "nomeL", "cognomeL", "paziente",
         NullTs, NullTs, NullTs)>>}

\* the records the peer posts while the node is at work
RecordsLive ==
  {Remote(1, "admin", IsoTs(MaxTime)),
   Remote(2, "bob", NullTs),
   Without(Remote(2, "bob", IsoTs(MaxTime)), "id")}

LiveBatches == SeqsUpTo(RecordsLive, MaxBatch)

Request(op, token, batch) == [op |-> op, token |-> token, batch |-> batch]

Result(success) == [NoResponse EXCEPT !.status = IF success THEN 200 ELSE 400]

\* auth_db = AuthDB('users.db'): init_database, then fix_null_updated_at
Init ==
  /\ now = 0
  /\ \E prior \in PriorTables :
       users = fix_null_updated_at(init_database(prior, MaxId(prior), now), now)
  /\ seq = MaxId(users)
  /\ sessions = <<>>
  /\ req = Request("init", NULL, <<>>)
  /\ resp = NoResponse
  /\ peer = <<>>
  /\ users0 = <<>>
  /\ pc = "serving"
  /\ txn = NoTxn
  /\ sched = NoSched
  /\ deleting = NoDeleting

\* a second passes
Tick ==
  /\ now + TicksPerSecond <= MaxTime
  /\ now' = now + TicksPerSecond
  /\ UNCHANGED <<sched, deleting, txn, users, sessions, seq, req, resp, peer, users0, pc>>

\* POST /api/auth/register
RegisterUser ==
  \E username \in {"admin", "bob"}, ruolo \in {"paziente", "guest"} :
    /\ NextId(users, seq) <= MaxRowId
    /\ LET out == register_user(users, seq, now, username, "secret", "nomeL", "cognomeL", ruolo)
       IN /\ users' = out.db
          /\ seq' = IF MaxId(out.db) > seq THEN MaxId(out.db) ELSE seq
          /\ resp' = Result(out.success)
    /\ req' = Request("register", NULL, <<>>)
    /\ UNCHANGED <<sched, deleting, txn, sessions, now, peer, users0, pc>>

\* POST /api/auth/login
Login ==
  \E username \in {"admin", "bob"}, password \in {"admin123", "secret"} :
    /\ Len(sessions) < MaxSessions
    /\ LET out == login(users, sessions, now, username, password)
       IN /\ users' = out.db
          /\ sessions' = out.sessions
          /\ resp' = [NoResponse EXCEPT !.status = IF out.success THEN 200 ELSE 401]
    /\ req' = Request("login", NULL, <<>>)
    /\ UNCHANGED <<sched, deleting, txn, now, seq, peer, users0, pc>>

\* the changes PUT /api/users/<id> is asked for: <<nome, cognome, ruolo, new_password>>
Edits ==
  {<<"nomeU", NULL, NULL, NULL>>, <<NULL, NULL, "guest", NULL>>, <<NULL, NULL, NULL, NULL>>}

\* PUT /api/users/<id>
UpdateUser ==
  \E user_id \in 1..MaxRowId, e \in Edits :
    /\ LET out == update_user(users, now, user_id, e[1], e[2], e[3], e[4])
       IN /\ users' = out.db
          /\ resp' = Result(out.success)
    /\ req' = Request("update", NULL, <<>>)
    /\ UNCHANGED <<sched, deleting, txn, sessions, now, seq, peer, users0, pc>>

\* DELETE /api/users/<id>
DeleteUser ==
  \E user_id \in 1..MaxRowId :
    /\ LET out == delete_user(users, user_id)
       IN /\ users' = out.db
          /\ resp' = Result(out.success)
    /\ req' = Request("delete", NULL, <<>>)
    /\ UNCHANGED <<sched, deleting, txn, sessions, now, seq, peer, users0, pc>>

\* GET /api/users/sync
GetSync ==
  \E token \in Tokens :
    /\ resp' = get_users_for_sync(users, token)
    /\ req' = Request("GET", token, <<>>)
    /\ UNCHANGED <<sched, deleting, txn, users, sessions, now, seq, peer, users0, pc>>

\* POST /api/users/sync
PostSync ==
  \E token \in Tokens, batch \in LiveBatches :
    /\ LET out == receive_users_for_sync(users, token, batch)
       IN /\ users' = out.db
          /\ resp' = out.resp
          /\ seq' = IF MaxId(out.db) > seq THEN MaxId(out.db) ELSE seq
    /\ req' = Request("POST", token, batch)
    /\ UNCHANGED <<sched, deleting, txn, sessions, now, peer, users0, pc>>

Next ==
  \/ Tick
  \/ RegisterUser
  \/ Login
  \/ UpdateUser
  \/ DeleteUser
  \/ GetSync
  \/ PostSync

Spec == Init /\ [][Next]_vars

\* ------------------------------------------- two nodes, one sync cycle
\* the rows of a table as the list of dicts SELECT * yields, in id order
RECURSIVE FullSetFrom(_, _)
FullSetFrom(db, ids) ==
  IF ids = {} THEN <<>>
  ELSE LET least == CHOOSE m \in ids : \A j \in ids : m <= j
       IN <<RowDict(db, least)>> \o FullSetFrom(db, ids \ {least})

FullSet(db) == FullSetFrom(db, DOMAIN db)

\* the updated_at values a row can carry when a cycle starts
CycleTimestamps ==
  {SqlTs(0), IsoTs(1), SqlTs(TicksPerSecond), IsoTs(MaxTime), UtcTs(0), NullTs, BadTs}

\* tables of a node when a cycle starts: user bob under id 2 and possibly
\* an admin under id 1 or under id 3
CycleStores ==
  {[j \in {2} \cup extra |->
      IF j = 2 THEN LocalRow("bob", "paziente", ts)
      ELSE LocalRow("admin", "admin", SqlTs(0))] :
     ts \in CycleTimestamps, extra \in {{}, {1}, {3}}}

InitCycle ==
  /\ users \in CycleStores
  /\ peer \in CycleStores
  /\ users0 = users
  /\ sessions = <<>>
  /\ now = MaxTime
  /\ seq = MaxId(users)
  /\ req = Request("init", NULL, <<>>)
  /\ resp = NoResponse
  /\ pc = "start"
  /\ txn = NoTxn
  /\ sched = NoSched
  /\ deleting = NoDeleting

\* the sync client of this node pulls the peer's full record set and merges
\* it into the local table with the merge algorithm of the endpoint
PullMerge ==
  /\ pc = "start"
  /\ LET out == receive_users_for_sync(users, SYNC_TOKEN, FullSet(peer))
     IN /\ users' = out.db
        /\ resp' = out.resp
        /\ seq' = IF MaxId(out.db) > seq THEN MaxId(out.db) ELSE seq
  /\ req' = Request("PULL", SYNC_TOKEN, FullSet(peer))
  /\ pc' = "pulled"
  /\ UNCHANGED <<sched, deleting, txn, sessions, now, peer, users0>>

\* the sync client posts the local full record set to the peer's endpoint
PushMerge ==
  /\ pc = "pulled"
  /\ LET out == receive_users_for_sync(peer, SYNC_TOKEN, FullSet(users))
     IN /\ peer' = out.db
        /\ resp' = out.resp
  /\ req' = Request("PUSH", SYNC_TOKEN, FullSet(users))
  /\ pc' = "pushed"
  /\ UNCHANGED <<sched, deleting, txn, users, sessions, now, seq, users0>>

NextCycle == PullMerge \/ PushMerge

SpecCycle == InitCycle /\ [][NextCycle]_vars

\* ------------------------- a merge and the other request threads of a node
\* The connection of receive_users_for_sync autocommits its SELECTs until its
\* first INSERT or UPDATE begins a transaction; from then on it holds the
\* write lock of users.db until commit, and a write of another connection
\* waits for the lock (or gives up).  Before that point every other
\* connection commits freely between two statements of the handler.
RaceStores ==
  {[j \in ids |-> IF j = 1 THEN LocalRow("admin", "admin", SqlTs(0))
                  ELSE LocalRow("bob", "paziente", SqlTs(0))] : ids \in {{1}, {1, 2}}}

RaceRecords ==
  {Remote(1, "admin", IsoTs(0)),
   Remote(1, "admin", IsoTs(Tolerance * TicksPerSecond)),
   Remote(2, "bob", IsoTs(MaxTime))}

InitRace ==
  /\ users \in RaceStores
  /\ users0 = users
  /\ sessions = <<>>
  /\ now = 0
  /\ seq = MaxId(users)
  /\ req \in {Request("POST", SYNC_TOKEN, b) : b \in SeqsUpTo(RaceRecords, MaxBatch) \ {<<>>}}
  /\ resp = NoResponse
  /\ peer = <<>>
  /\ pc = "merging"
  /\ txn = [NoTxn EXCEPT !.i = 1]
  /\ sched = NoSched
  /\ deleting = NoDeleting

\* the table as the connection of the handler sees it
View == IF txn.writing THEN txn.db ELSE users

\* lines 1256-1257: SELECT id, updated_at FROM users WHERE id = ?
RaceSelect ==
  /\ pc = "merging" /\ ~txn.selected /\ txn.i <= Len(req.batch)
  /\ LET user == req.batch[txn.i]
     IN txn' = [txn EXCEPT !.selected = TRUE,
                           !.existing = IF Has(user, "id")
                                          THEN {r.updated_at : r \in RowsOf(View, user.id)}
                                          ELSE {}]
  /\ UNCHANGED <<sched, deleting, users, sessions, now, seq, req, resp, peer, users0, pc>>

\* lines 1259-1328: the decision taken on the updated_at the SELECT fetched
\* and the statement it leads to, executed on the table as it is by now
RaceResolve ==
  /\ pc = "merging" /\ txn.selected
  /\ LET user == req.batch[txn.i]
         uid == IF Has(user, "id") THEN user.id ELSE 0
         fetched == IF txn.existing = {}
                      THEN [j \in DOMAIN View \ {uid} |-> View[j]]
                      ELSE [View EXCEPT ![uid].updated_at = CHOOSE ts \in txn.existing : TRUE]
         decided == Decide(fetched, user)
         dec == IF decided = "insert" /\ uid \in DOMAIN View THEN "abort" ELSE decided
         db2 == Apply(View, user, dec)
         step == [dec |-> dec, id |-> uid, at |-> txn.i, read |-> txn.existing,
                  before |-> RowsOf(View, uid), after |-> RowsOf(db2, uid)]
         writes == txn.writing \/ dec \in {"update", "insert"}
     IN IF dec = "abort"
          THEN /\ txn' = [NoTxn EXCEPT !.steps = Append(txn.steps, step)]
               /\ resp' = [NoResponse EXCEPT !.status = 500, !.opened = TRUE]
               /\ pc' = "done"
          ELSE /\ txn' = [i |-> txn.i + 1, selected |-> FALSE, existing |-> {},
                          writing |-> writes,
                          db |-> IF writes THEN db2 ELSE <<>>,
                          updated |-> txn.updated + (IF dec = "update" THEN 1 ELSE 0),
                          inserted |-> txn.inserted + (IF dec = "insert" THEN 1 ELSE 0),
                          conflicts |-> IF dec \in ConflictReasons
                                          THEN Append(txn.conflicts,
                                                 [id |-> user.id, username |-> user.username,
                                                  reason |-> dec])
                                          ELSE txn.conflicts,
                          steps |-> Append(txn.steps, step)]
               /\ UNCHANGED <<resp, pc>>
  /\ UNCHANGED <<sched, deleting, users, sessions, now, seq, req, peer, users0>>

\* lines 1330-1342: commit and the 200 response
RaceCommit ==
  /\ pc = "merging" /\ ~txn.selected /\ txn.i > Len(req.batch)
  /\ users' = View
  /\ seq' = IF MaxId(View) > seq THEN MaxId(View) ELSE seq
  /\ resp' = [NoResponse EXCEPT !.status = 200, !.opened = TRUE,
                                !.updated = txn.updated, !.inserted = txn.inserted,
                                !.conflicts = txn.conflicts]
  /\ txn' = [txn EXCEPT !.writing = FALSE, !.db = <<>>]
  /\ pc' = "done"
  /\ UNCHANGED <<sched, deleting, sessions, now, req, peer, users0>>

\* PUT /api/users/<id> served by another thread
RaceUpdateUser ==
  /\ ~txn.writing
  /\ \E user_id \in DOMAIN users, e \in Edits :
       LET out == update_user(users, now, user_id, e[1], e[2], e[3], e[4])
       IN out.success /\ users' = out.db
  /\ UNCHANGED <<sched, deleting, sessions, now, seq, req, resp, peer, users0, pc, txn>>

\* POST /api/auth/login served by another thread
RaceLogin ==
  /\ ~txn.writing
  /\ Len(sessions) < MaxSessions
  /\ \E username \in {"admin", "bob"}, password \in {"admin123", "secret"} :
       LET out == login(users, sessions, now, username, password)
       IN out.success /\ users' = out.db /\ sessions' = out.sessions
  /\ UNCHANGED <<sched, deleting, now, seq, req, resp, peer, users0, pc, txn>>

NextRace ==
  \/ RaceSelect
  \/ RaceResolve
  \/ RaceCommit
  \/ RaceUpdateUser
  \/ RaceLogin
  \/ Tick

SpecRace == InitRace /\ [][NextRace]_vars

\* ----------------------------------------------------------------- startup
\* the rows users.db can hold for one id when the process starts, written by
\* earlier runs or merged from the peer
StartRows(usernames, roles) ==
  {Row(u, "hashL", "nomeL", "cognomeL", r, c, NullTs, ts) :
     u \in usernames, r \in roles, c \in {NullTs, SqlTs(0)},
     ts \in {NullTs, EmptyTs, SqlTs(Mid)}}

\* the tables users.db can hold when the process starts
StartTables ==
  {<<>>}
  \cup {[j \in {1} |-> a] : a \in StartRows({"admin", "carol"}, {"admin", "medico"})}
  \cup {[j \in {2} |-> b] : b \in StartRows({"bob"}, {"admin", "paziente"})}
  \cup {[j \in {1, 2} |-> IF j = 1 THEN a ELSE b] :
          a \in StartRows({"admin", "carol"}, {"admin", "medico"}),
          b \in StartRows({"bob"}, {"admin", "paziente"})}

InitStart ==
  /\ users \in StartTables
  /\ users0 = users
  /\ now \in 0..MaxTime
  /\ seq = MaxId(users)
  /\ sessions = <<>>
  /\ req = Request("init", NULL, <<>>)
  /\ resp = NoResponse
  /\ peer = <<>>
  /\ pc = "stopped"
  /\ txn = NoTxn
  /\ sched = NoSched
  /\ deleting = NoDeleting

\* auth_db = AuthDB('users.db') completes
Construct ==
  /\ pc = "stopped"
  /\ ~init_database_raises(users)
  /\ users' = fix_null_updated_at(init_database(users, seq, now), now)
  /\ seq' = MaxId(users')
  /\ pc' = "serving"
  /\ UNCHANGED <<sched, deleting, txn, sessions, now, req, resp, peer, users0>>

\* the INSERT of the default admin raises sqlite3.IntegrityError: the
\* constructor does not return and the import of the module fails
ConstructRaises ==
  /\ pc = "stopped"
  /\ init_database_raises(users)
  /\ pc' = "crashed"
  /\ UNCHANGED <<sched, deleting, txn, users, sessions, now, seq, req, resp, peer, users0>>

NextStart == Construct \/ ConstructRaises

SpecStart == InitStart /\ [][NextStart]_vars

\* ------------------------------------- a local delete, then one sync cycle
\* the tables both nodes hold before the delete
DeleteStores ==
  {[j \in {1, 2} \cup extra |->
      IF j = 1 THEN LocalRow("admin", "admin", SqlTs(0))
      ELSE IF j = 2 THEN LocalRow("bob", ruolo, ts)
      ELSE LocalRow("carol", "medico", SqlTs(0))] :
     ruolo \in {"paziente", "admin"}, ts \in {SqlTs(0), NullTs, IsoTs(MaxTime)},
     extra \in {{}, {3}}}

InitDelete ==
  /\ users \in DeleteStores
  /\ peer = users
  /\ users0 = users
  /\ sessions = <<>>
  /\ now \in {0, MaxTime}
  /\ seq = MaxId(users)
  /\ req = Request("init", NULL, <<>>)
  /\ resp = NoResponse
  /\ pc = "start"
  /\ txn = NoTxn
  /\ sched = NoSched
  /\ deleting = NoDeleting

\* the ids deleted on this node since the scenario began
Gone == DOMAIN users0 \ DOMAIN users

\* DELETE /api/users/<id> on this node, before the cycle
DeleteLocal ==
  \E user_id \in DOMAIN users :
    /\ pc = "start"
    /\ Gone = {}
    /\ LET out == delete_user(users, user_id)
       IN /\ out.success
          /\ users' = out.db
          /\ resp' = Result(out.success)
    /\ req' = Request("delete", NULL, <<>>)
    /\ UNCHANGED <<sched, deleting, txn, sessions, now, seq, peer, users0, pc>>

\* POST /api/auth/register on this node with the username of a deleted user
RegisterAgain ==
  \E id \in Gone :
    /\ pc = "start"
    /\ LET out == register_user(users, seq, now, users0[id].username, "secret",
                                "nomeL", "cognomeL", "paziente")
       IN /\ out.success
          /\ users' = out.db
          /\ seq' = MaxId(out.db)
          /\ resp' = Result(out.success)
    /\ req' = Request("register", NULL, <<>>)
    /\ UNCHANGED <<sched, deleting, txn, sessions, now, peer, users0, pc>>

NextDelete == DeleteLocal \/ RegisterAgain \/ PullMerge \/ PushMerge

SpecDelete == InitDelete /\ [][NextDelete]_vars

\* ------------------------------------------------------- the sync scheduler
\* tables of the two nodes when the scheduler starts: user bob under id 2
\* and possibly an admin under id 1 or under id 3
SchedStores ==
  {[j \in {2} \cup extra |->
      IF j = 2 THEN LocalRow("bob", "paziente", ts)
      ELSE LocalRow("admin", "admin", SqlTs(0))] :
     ts \in {SqlTs(0), IsoTs(MaxTime), NullTs}, extra \in {{}, {1}, {3}}}

\* the ways a request of the sync client fails
Failures == {"network_error", "timeout", "non_2xx", "unauthorized", "parse_failure"}

\* the last cycle failed
Failed(s) == s.outcome \in Failures \cup {"merge_error"}

\* a cycle starts on every firing of the interval, also while one is running
CanStartOnTimer(s) == s.due

\* a cycle starts when the interval has fired and no cycle is running
CanStart(s) == s.due /\ s.running = 0

\* the scheduler after the cycle under way ended with outcome
Ended(s, outcome) ==
  [s EXCEPT !.running = @ - 1, !.phase = "idle", !.outcome = outcome]

InitSched ==
  /\ users \in SchedStores
  /\ peer \in SchedStores
  /\ users0 = users
  /\ sessions = <<>>
  /\ now = MaxTime
  /\ seq = MaxId(users)
  /\ req = Request("init", NULL, <<>>)
  /\ resp = NoResponse
  /\ pc = "serving"
  /\ txn = NoTxn
  /\ sched = NoSched
  /\ deleting = NoDeleting

\* the interval elapses
IntervalFires ==
  /\ ~sched.due
  /\ sched' = [sched EXCEPT !.due = TRUE]
  /\ UNCHANGED <<deleting, txn, users, sessions, now, seq, req, resp, peer, users0, pc>>

\* idle -> running
StartCycle ==
  /\ CanStart(sched)
  /\ sched' = [sched EXCEPT !.running = @ + 1, !.due = FALSE, !.phase = "pull",
                            !.outcome = "none"]
  /\ users0' = users
  /\ UNCHANGED <<deleting, txn, users, sessions, now, seq, req, resp, peer, pc>>

\* the pull is answered with the peer's full record set, which is merged
\* into the local table in one transaction
Pull ==
  /\ sched.phase = "pull"
  /\ LET out == receive_users_for_sync(users, SYNC_TOKEN, FullSet(peer))
     IN /\ users' = out.db
        /\ resp' = out.resp
        /\ seq' = IF MaxId(out.db) > seq THEN MaxId(out.db) ELSE seq
        /\ sched' = IF out.resp.status = 200 THEN [sched EXCEPT !.phase = "push"]
                    ELSE Ended(sched, "merge_error")
  /\ req' = Request("PULL", SYNC_TOKEN, FullSet(peer))
  /\ UNCHANGED <<deleting, txn, sessions, now, peer, users0, pc>>

\* the pull fails: the cycle is aborted
PullFails ==
  \E failure \in Failures :
    /\ sched.phase = "pull"
    /\ sched' = Ended(sched, failure)
    /\ req' = Request("PULL", SYNC_TOKEN, <<>>)
    /\ resp' = NoResponse
    /\ UNCHANGED <<deleting, txn, users, sessions, now, seq, peer, users0, pc>>

\* the push reaches the peer, whose endpoint merges the local full record
\* set; an answer other than 2xx fails the cycle
Push ==
  /\ sched.phase = "push"
  /\ LET out == receive_users_for_sync(peer, SYNC_TOKEN, FullSet(users))
     IN /\ peer' = out.db
        /\ resp' = out.resp
        /\ sched' = Ended(sched, IF out.resp.status = 200 THEN "ok" ELSE "non_2xx")
  /\ req' = Request("PUSH", SYNC_TOKEN, FullSet(users))
  /\ UNCHANGED <<deleting, txn, users, sessions, now, seq, users0, pc>>

\* the push fails before the peer's endpoint merges anything
PushFails ==
  \E failure \in Failures \ {"parse_failure"} :
    /\ sched.phase = "push"
    /\ sched' = Ended(sched, failure)
    /\ req' = Request("PUSH", SYNC_TOKEN, FullSet(users))
    /\ resp' = NoResponse
    /\ UNCHANGED <<deleting, txn, users, sessions, now, seq, peer, users0, pc>>

NextSched ==
  \/ IntervalFires
  \/ StartCycle
  \/ Pull
  \/ PullFails
  \/ Push
  \/ PushFails

SpecSched == InitSched /\ [][NextSched]_vars

\* the timer keeps firing, the loop thread keeps running, and a request of
\* the client that has not been answered ends by its timeout
SpecSchedFair ==
  /\ InitSched /\ [][NextSched]_vars
  /\ WF_vars(IntervalFires)
  /\ WF_vars(StartCycle)
  /\ WF_vars(PullFails)
  /\ WF_vars(PushFails)

\* ------------------------------------------- delete_user, statement by statement
\* the number of rows with role admin
AdminCount(db) == Cardinality({j \in DOMAIN db : db[j].ruolo = "admin"})

\* tables with at least one admin
AdminStores ==
  {db \in {[j \in ids |-> LocalRow(<<"admin", "bob", "carol", "dave">>[j], roles[j], SqlTs(0))] :
             ids \in SUBSET (1..MaxRowId), roles \in [1..MaxRowId -> {"admin", "paziente"}]} :
     AdminCount(db) >= 1}

InitAdmin ==
  /\ users \in AdminStores
  /\ users0 = users
  /\ now = 0
  /\ seq = MaxId(users)
  /\ sessions = <<>>
  /\ req = Request("init", NULL, <<>>)
  /\ resp = NoResponse
  /\ peer = <<>>
  /\ pc = "serving"
  /\ txn = NoTxn
  /\ sched = NoSched
  /\ deleting = NoDeleting

\* a thread enters delete_user(user_id) and runs the SELECT COUNT(*) of
\* line 364 on its own connection
DeleteCount(t) ==
  \E user_id \in 1..MaxRowId :
    /\ deleting[t].at = "idle"
    /\ deleting' = [deleting EXCEPT ![t] =
                      [NoDelete EXCEPT !.at = "counted", !.user_id = user_id,
                                       !.admin_count = AdminCount(users)]]
    /\ UNCHANGED <<sched, txn, users, sessions, now, seq, req, resp, peer, users0, pc>>

\* the SELECT ruolo of line 367
DeleteSelect(t) ==
  /\ deleting[t].at = "counted"
  /\ deleting' = [deleting EXCEPT ![t].at = "read",
                                  ![t].ruolo = {r.ruolo : r \in RowsOf(users, deleting[t].user_id)}]
  /\ UNCHANGED <<sched, txn, users, sessions, now, seq, req, resp, peer, users0, pc>>

\* the tests of lines 370-374 on what the two SELECTs returned, then the
\* DELETE and the commit of lines 376-377
DeleteWrite(t) ==
  /\ deleting[t].at = "read"
  /\ IF deleting[t].ruolo = {} \/ (deleting[t].ruolo = {"admin"} /\ deleting[t].admin_count <= 1)
       THEN /\ deleting' = [deleting EXCEPT ![t].at = "done", ![t].result = "refused"]
            /\ users' = users
       ELSE /\ deleting' = [deleting EXCEPT ![t].at = "done", ![t].result = "deleted"]
            /\ users' = [j \in DOMAIN users \ {deleting[t].user_id} |-> users[j]]
  /\ UNCHANGED <<sched, txn, sessions, now, seq, req, resp, peer, users0, pc>>

\* the response is sent and the thread serves the next request
DeleteReturn(t) ==
  /\ deleting[t].at = "done"
  /\ deleting' = [deleting EXCEPT ![t] = NoDelete]
  /\ UNCHANGED <<sched, txn, users, sessions, now, seq, req, resp, peer, users0, pc>>

NextAdmin ==
  \E t \in Threads :
    \/ DeleteCount(t)
    \/ DeleteSelect(t)
    \/ DeleteWrite(t)
    \/ DeleteReturn(t)

SpecAdmin == InitAdmin /\ [][NextAdmin]_vars

\* ------------------------------------------------ the records of a request
\* the records of the last batch the loop reached
Reached == 1..Len(resp.steps)

\* the stored updated_at the i-th record was compared with
LocalTs(i) == (CHOOSE r \in resp.steps[i].before : TRUE).updated_at

IncomingTs(i) == GetTs(req.batch[i], "updated_at")

\* the i-th record met a stored row and both updated_at values parse to
\* datetimes that can be subtracted
Comparable(i) ==
  /\ resp.steps[i].existed
  /\ Parses(IncomingTs(i)) /\ Parses(LocalTs(i))
  /\ Aware(IncomingTs(i)) = Aware(LocalTs(i))

\* incoming minus local updated_at, in ticks
Delta(i) == IncomingTs(i).v - LocalTs(i).v

\* the table accepts the i-th record as a row: every column value is present
\* and satisfies the constraints, and no other row holds its username
Acceptable(i) ==
  LET user == req.batch[i] IN
  /\ {"username", "password_hash", "nome", "cognome", "ruolo"} \subseteq user.keys
  /\ user.username # NULL /\ user.password_hash # NULL
  /\ user.nome # NULL /\ user.cognome # NULL /\ user.ruolo \in Roles
  /\ user.username \notin resp.steps[i].others

\* the stored row after the i-th record equals the incoming record, column by column
StoredIsIncoming(i) ==
  LET user == req.batch[i] IN
  \E r \in resp.steps[i].after :
    /\ r.username = user.username /\ r.password_hash = user.password_hash
    /\ r.nome = user.nome /\ r.cognome = user.cognome /\ r.ruolo = user.ruolo
    /\ r.created_at = GetTs(user, "created_at")
    /\ r.last_login = GetTs(user, "last_login")
    /\ r.updated_at = GetTs(user, "updated_at")

Unchanged(i) == resp.steps[i].after = resp.steps[i].before

ReportedAs(i, reason) ==
  \E k \in 1..Len(resp.conflicts) :
    resp.conflicts[k].id = req.batch[i].id /\ resp.conflicts[k].reason = reason

\* the response leaves room for n records counted in updated only
CountedUpdatedOnly(n) ==
  /\ resp.updated >= n
  /\ resp.inserted + Len(resp.conflicts) <= Len(req.batch) - n

\* the response leaves room for n records counted nowhere
CountedNowhere(n) ==
  resp.inserted + resp.updated + Len(resp.conflicts) <= Len(req.batch) - n

IncomingLater(i) == Comparable(i) /\ Delta(i) >= Tolerance * TicksPerSecond
IncomingOlder(i) == Comparable(i) /\ -Delta(i) >= Tolerance * TicksPerSecond
WithinTolerance(i) == Comparable(i) /\ Abs(Delta(i)) < Tolerance * TicksPerSecond

\* C2 (as stated): a record whose id exists locally and whose updated_at is
\* later than the stored one by at least one second replaces the stored row,
\* updated_at verbatim, and the response counts it in updated only.
C2_IncomingWins ==
  pc # "ready" =>
    /\ \A i \in Reached : IncomingLater(i) =>
         resp.steps[i].dec = "update" /\ StoredIsIncoming(i)
    /\ resp.status = 200 => CountedUpdatedOnly(Cardinality({i \in Reached : IncomingLater(i)}))

\* C2 (amended): such a record replaces the stored row, updated_at verbatim,
\* exactly when the table accepts it; it is then counted in updated only.  A
\* record the table does not accept leaves the stored row unchanged and is
\* reported as timestamp_parse_error, or ends the request when it has no username.
C2_IncomingWinsWhenAccepted ==
  pc # "ready" =>
    /\ \A i \in Reached : IncomingLater(i) =>
         IF Acceptable(i)
           THEN resp.steps[i].dec = "update" /\ StoredIsIncoming(i)
           ELSE /\ Unchanged(i)
                /\ resp.steps[i].dec =
                     IF Has(req.batch[i], "username") THEN "timestamp_parse_error" ELSE "abort"
    /\ resp.status = 200 =>
         CountedUpdatedOnly(Cardinality({i \in Reached : IncomingLater(i) /\ Acceptable(i)}))

C2_Witness ==
  /\ pc = "once" /\ resp.status = 200 /\ resp.updated = 1
  /\ \E i \in Reached :
       /\ IncomingLater(i) /\ Acceptable(i) /\ Delta(i) = Tolerance * TicksPerSecond
       /\ StoredIsIncoming(i) /\ ~Unchanged(i)
       /\ users[req.batch[i].id].updated_at = IncomingTs(i)
       /\ LocalTs(i).k = "sql"

\* C3 (as stated): a record whose id exists locally and whose updated_at is
\* older than the stored one by at least one second writes nothing for that
\* id and is listed in the response's conflicts as local_newer; the request
\* succeeds.
C3_ConflictReporting ==
  pc # "ready" =>
    \A i \in Reached : IncomingOlder(i) =>
      /\ Unchanged(i)
      /\ resp.steps[i].dec = "local_newer"
      /\ resp.status = 200
      /\ ReportedAs(i, "local_newer")

\* C4: updated_at values of the same id less than one second apart, in either
\* direction, resolve to no_op: the stored row is unchanged and the record is
\* counted in none of inserted, updated, conflicts; exactly one second apart
\* is not a no_op.
C4_ToleranceWindow ==
  pc # "ready" =>
    /\ \A i \in Reached :
         /\ WithinTolerance(i) => resp.steps[i].dec = "no_op" /\ Unchanged(i)
         /\ Comparable(i) /\ Abs(Delta(i)) = Tolerance * TicksPerSecond =>
              resp.steps[i].dec # "no_op"
    /\ resp.status = 200 =>
         CountedNowhere(Cardinality({i \in Reached : WithinTolerance(i)}))

C4_Witness ==
  /\ pc = "once" /\ resp.status = 200 /\ Len(req.batch) = MaxBatch
  /\ \E i, j \in Reached :
       /\ WithinTolerance(i) /\ Delta(i) = 1 - Tolerance * TicksPerSecond
       /\ Unchanged(i) /\ resp.steps[i].dec = "no_op"
       /\ Comparable(j) /\ Delta(j) = Tolerance * TicksPerSecond
       /\ resp.steps[j].dec = "update"
  /\ resp.updated = 1 /\ resp.inserted = 0 /\ resp.conflicts = <<>>

\* the i-th record carries an id that no stored row had when it was processed
AbsentLocally(i) == Has(req.batch[i], "id") /\ ~resp.steps[i].existed

\* C5 (as stated): every incoming record whose id is absent from the local
\* store is inserted and counted in inserted, whatever its updated_at.
C5_NewRecord ==
  pc # "ready" =>
    /\ \A i \in Reached : AbsentLocally(i) =>
         resp.steps[i].dec = "insert" /\ StoredIsIncoming(i)
    /\ resp.status = 200 => resp.inserted = Cardinality({i \in Reached : AbsentLocally(i)})
    /\ \A i \in Reached : AbsentLocally(i) => req.batch[i].id \in DOMAIN users

\* C5 (amended): an incoming record whose id is absent locally is inserted,
\* whatever its updated_at, exactly when the table accepts it, and a request
\* answered 200 counts it in inserted and has stored its id; a record the
\* table does not accept is not inserted and the request is answered 500
\* with the table as it was before the request.
C5_NewRecordWhenAccepted ==
  pc # "ready" =>
    /\ \A i \in Reached : AbsentLocally(i) =>
         IF Acceptable(i)
           THEN resp.steps[i].dec = "insert" /\ StoredIsIncoming(i)
           ELSE resp.steps[i].dec = "abort" /\ Unchanged(i) /\ resp.status = 500
    /\ resp.status = 200 =>
         /\ resp.inserted = Cardinality({i \in Reached : AbsentLocally(i)})
         /\ \A i \in Reached : AbsentLocally(i) => req.batch[i].id \in DOMAIN users
    /\ pc = "once" /\ resp.status = 500 => users = users0

C5_Witness ==
  /\ pc = "once" /\ resp.status = 200 /\ resp.inserted = 1
  /\ \E i \in Reached :
       /\ AbsentLocally(i) /\ IncomingTs(i) = NullTs
       /\ resp.steps[i].others # {}
       /\ users[req.batch[i].id].updated_at = NullTs
       /\ users[req.batch[i].id].username = req.batch[i].username

\* C6 (as stated): every incoming record whose updated_at is null or missing
\* is classified conflict missing_timestamp and leaves the table unchanged,
\* whether or not its id exists locally.
C6_MissingTimestamp ==
  pc # "ready" =>
    \A i \in Reached : Has(req.batch[i], "id") /\ IncomingTs(i) = NullTs =>
      /\ resp.steps[i].dec = "missing_timestamp"
      /\ Unchanged(i)

\* C8 (as stated): the second of two identical POST /sync requests in a row
\* leaves the table as the first one left it.
C8_IdempotentState == [][pc = "once" /\ pc' = "twice" => users' = users]_vars

\* C9 (as stated): the second of two identical POST /sync requests resolves
\* every record to no_op: inserted = 0, updated = 0, conflicts empty.
C9_SecondPassAllNoOp ==
  pc = "twice" => resp.inserted = 0 /\ resp.updated = 0 /\ resp.conflicts = <<>>

\* C9 (amended): the second of two identical POST /sync requests inserts no
\* row. A first pass not answered 200 is answered the same way again; after a
\* first pass answered 200 the second is answered 200 or 500 (500 leaves the
\* store as it was), and when it is answered 200: inserted = 0,
\* each record resolves to no_op or to a conflict (a record reported
\* local_newer or missing_timestamp is reported again), except that a record
\* whose UPDATE the table refused on the first pass, reported as
\* timestamp_parse_error, may be updated on the second.
C9_SecondPassNoInsert ==
  [][pc = "once" /\ pc' = "twice" =>
       /\ DOMAIN users' = DOMAIN users
       /\ resp.status # 200 => resp' = resp /\ users' = users
       /\ resp'.status # 200 => users' = users
       /\ resp.status = 200 /\ resp'.status = 200 =>
            /\ resp'.inserted = 0
            /\ Len(resp'.steps) = Len(resp.steps)
            /\ \A i \in 1..Len(resp.steps) :
                 /\ resp'.steps[i].dec \in {"no_op", "update"} \cup ConflictReasons
                 /\ resp'.steps[i].dec = "update" =>
                      resp.steps[i].dec = "timestamp_parse_error"
                 /\ resp.steps[i].dec \in {"local_newer", "missing_timestamp"} =>
                      resp'.steps[i].dec = resp.steps[i].dec]_vars

C9_Witness ==
  /\ pc = "twice" /\ resp.status = 200
  /\ resp.inserted = 0 /\ resp.updated = 0
  /\ Len(req.batch) = MaxBatch
  /\ \E i, j \in Reached :
       /\ resp.steps[i].dec = "no_op" /\ IncomingLater(j) = FALSE
       /\ resp.steps[j].dec = "local_newer"
       /\ req.batch[j].id \in DOMAIN users0 /\ req.batch[i].id \notin DOMAIN users0

\* the i-th record of the batch equals the row r, column by column
IsIncoming(r, i) ==
  LET user == req.batch[i] IN
  /\ {"username", "password_hash", "nome", "cognome", "ruolo"} \subseteq user.keys
  /\ r.username = user.username /\ r.password_hash = user.password_hash
  /\ r.nome = user.nome /\ r.cognome = user.cognome /\ r.ruolo = user.ruolo
  /\ r.created_at = GetTs(user, "created_at")
  /\ r.last_login = GetTs(user, "last_login")
  /\ r.updated_at = GetTs(user, "updated_at")

\* C11: after POST /sync has processed a record, the stored row with its id
\* equals the previous local row in all fields or the incoming record in all
\* fields, never a mix; the same holds of every row once the request is over.
C11_Atomicity ==
  pc # "ready" =>
    /\ \A i \in Reached : Unchanged(i) \/ StoredIsIncoming(i)
    /\ \A id \in DOMAIN users :
         \/ id \in DOMAIN users0 /\ users[id] = users0[id]
         \/ \E i \in 1..Len(req.batch) :
              Has(req.batch[i], "id") /\ req.batch[i].id = id /\ IsIncoming(users[id], i)

C11_Witness ==
  /\ pc = "once" /\ resp.status = 200
  /\ \E i \in Reached :
       /\ resp.steps[i].dec = "update" /\ IsIncoming(users[req.batch[i].id], i)
       /\ \A r \in resp.steps[i].before :
            /\ r.password_hash # req.batch[i].password_hash
            /\ r.nome # req.batch[i].nome /\ r.ruolo # req.batch[i].ruolo
            /\ r.created_at # req.batch[i].created_at
            /\ r.last_login # req.batch[i].last_login

\* the i-th record lacks a column value the statements index, or carries an
\* updated_at that is missing or does not parse
Malformed(i) ==
  \/ ~(({"id", "username", "password_hash", "nome", "cognome", "ruolo"}) \subseteq req.batch[i].keys)
  \/ ~Parses(IncomingTs(i))

\* C12 (as stated): a malformed record is classified as a conflict and
\* skipped, the batch is not aborted: every record is processed and the
\* request is answered 200.
C12_MalformedIsolated ==
  pc # "ready" /\ req.batch # <<>> =>
    /\ resp.status = 200
    /\ Len(resp.steps) = Len(req.batch)
    /\ \A i \in Reached : Malformed(i) =>
         resp.steps[i].dec \in ConflictReasons /\ Unchanged(i)

\* the i-th record met a stored row and one of the two updated_at values is
\* non-empty but does not parse, or the two cannot be subtracted
Unparseable(i) ==
  /\ resp.steps[i].existed
  /\ \/ Truthy(IncomingTs(i)) /\ ~Parses(IncomingTs(i))
     \/ Truthy(LocalTs(i)) /\ ~Parses(LocalTs(i))
     \/ /\ Parses(IncomingTs(i)) /\ Parses(LocalTs(i))
        /\ Aware(IncomingTs(i)) # Aware(LocalTs(i))

\* processing went on with the record after the i-th one
Continued(i) == i < Len(req.batch) => i + 1 \in Reached

\* C13 (as stated): a record whose id exists locally and whose incoming or
\* local updated_at is non-empty but cannot be parsed or compared is reported
\* as timestamp_parse_error, nothing is written for its id and processing
\* continues with the next record.
C13_UnparseableTimestamp ==
  pc # "ready" =>
    \A i \in Reached : Unparseable(i) =>
      /\ resp.steps[i].dec = "timestamp_parse_error"
      /\ Unchanged(i)
      /\ Continued(i)

\* C13 (amended): such a record writes nothing for its id.  When both
\* updated_at values are non-empty it is classified timestamp_parse_error,
\* when the other one is null or empty missing_timestamp; processing
\* continues and a request answered 200 lists it in conflicts with that
\* reason.  A record without username ends the request instead: 500, the
\* table as it was before the request.
C13_UnparseableWhenBothPresent ==
  pc # "ready" =>
    \A i \in Reached : Unparseable(i) =>
      LET reason == IF Truthy(IncomingTs(i)) /\ Truthy(LocalTs(i))
                      THEN "timestamp_parse_error" ELSE "missing_timestamp"
      IN /\ Unchanged(i)
         /\ IF Has(req.batch[i], "username")
              THEN /\ resp.steps[i].dec = reason
                   /\ Continued(i)
                   /\ resp.status = 200 => ReportedAs(i, reason)
              ELSE /\ resp.steps[i].dec = "abort"
                   /\ resp.status = 500
                   /\ pc = "once" => users = users0

C13_Witness ==
  /\ pc = "once" /\ resp.status = 200 /\ Len(req.batch) = MaxBatch
  /\ \E i, j \in Reached :
       /\ j = i + 1
       /\ Unparseable(i) /\ IncomingTs(i) = BadTs /\ Parses(LocalTs(i))
       /\ ReportedAs(i, "timestamp_parse_error")
       /\ users[req.batch[i].id] = users0[req.batch[i].id]
       /\ resp.steps[j].dec = "insert"

\* C14 (as stated): a merge never changes the created_at of a row the node
\* already stores.
C14_CreatedAtImmutable ==
  [][\A id \in DOMAIN users \cap DOMAIN users' :
       users'[id].created_at = users[id].created_at]_vars

\* C15 (as stated): the read, the decision and the write of a merge of an id
\* do not interleave with a local write to that id, so no UPDATE of a merge
\* overwrites a row that was committed after the merge read its updated_at
\* and that is newer than the incoming record.
C15_WriteSerialization ==
  \A k \in 1..Len(txn.steps) :
    LET s == txn.steps[k] IN
    s.dec = "update" =>
      \A r \in s.before :
        \/ r.updated_at \in s.read
        \/ ~(Parses(r.updated_at) /\ r.updated_at.v > IncomingTs(s.at).v)

\* the i-th record carries an id no stored row has and a username another
\* stored row holds
Collides(i) ==
  /\ AbsentLocally(i)
  /\ Has(req.batch[i], "username")
  /\ req.batch[i].username \in resp.steps[i].others

UniqueUsernames(db) ==
  \A a, b \in DOMAIN db : db[a].username = db[b].username => a = b

\* C16 (as stated): a record whose id is absent locally and whose username a
\* local row with another id holds is inserted without any conflict, leaving
\* two rows with the same username.
C16_UsernameCollisionInserted ==
  pc # "ready" =>
    \A i \in Reached : Collides(i) =>
      /\ resp.steps[i].dec = "insert"
      /\ StoredIsIncoming(i)

\* C16 (amended): such a record is not inserted: the INSERT violates the
\* UNIQUE constraint on username, the request is answered 500 and the table
\* is left as it was before the request; no table ever holds two rows with
\* the same username.
C16_UsernameCollisionRefused ==
  /\ UniqueUsernames(users)
  /\ pc # "ready" =>
       \A i \in Reached : Collides(i) =>
         /\ resp.steps[i].dec = "abort"
         /\ Unchanged(i)
         /\ resp.status = 500
         /\ pc = "once" => users = users0

C16_Witness ==
  /\ pc = "once" /\ resp.status = 500 /\ users = users0
  /\ \E i, j \in Reached :
       /\ j = i + 1
       /\ resp.steps[i].dec = "update"
       /\ Collides(j)
       /\ {"password_hash", "nome", "cognome", "ruolo"} \subseteq req.batch[j].keys
       /\ \E id \in DOMAIN users : id # req.batch[j].id
                                   /\ users[id].username = req.batch[j].username

\* C25: a merge never decreases the stored updated_at of a row whose
\* timestamp parses; it writes an existing row only when the incoming
\* updated_at is later than the stored one by at least one second.
C25_Monotone ==
  /\ [][\A id \in DOMAIN users :
          /\ id \in DOMAIN users'
          /\ Parses(users[id].updated_at) /\ users'[id] # users[id] =>
               /\ Parses(users'[id].updated_at)
               /\ users'[id].updated_at.v - users[id].updated_at.v
                    >= Tolerance * TicksPerSecond]_vars
  /\ [](\A i \in Reached : resp.steps[i].existed /\ ~Unchanged(i) =>
          /\ Parses(LocalTs(i)) /\ Parses(IncomingTs(i))
          /\ Delta(i) >= Tolerance * TicksPerSecond)

C25_Witness ==
  /\ pc = "once" /\ resp.status = 200 /\ Len(req.batch) = MaxBatch
  /\ \E i, j \in Reached :
       /\ i < j /\ req.batch[i].id = req.batch[j].id
       /\ resp.steps[i].dec = "update" /\ resp.steps[j].dec = "local_newer"
       /\ users[req.batch[i].id].updated_at = IncomingTs(i)
       /\ users[req.batch[i].id].updated_at.v > users0[req.batch[i].id].updated_at.v

\* C26: in a 200 response every record of the batch is counted in exactly
\* one of inserted, updated, conflicts, or in none: the three add up to at
\* most the size of the batch; inserted is the number of rows the request
\* added and updated the number of replacements of a stored row it made.
C26_Accounting ==
  [][pc = "ready" /\ pc' = "once" /\ resp'.status = 200 =>
       /\ resp'.inserted + resp'.updated + Len(resp'.conflicts) <= Len(req.batch)
       /\ resp'.inserted = Cardinality(DOMAIN users' \ DOMAIN users)
       /\ resp'.updated =
            Cardinality({i \in 1..Len(resp'.steps) :
                           /\ resp'.steps[i].existed
                           /\ resp'.steps[i].after # resp'.steps[i].before})
       /\ Len(resp'.conflicts) =
            Cardinality({i \in 1..Len(resp'.steps) :
                           /\ resp'.steps[i].dec \in ConflictReasons
                           /\ resp'.steps[i].after = resp'.steps[i].before})
       /\ Len(resp'.steps) = Len(req.batch)]_vars

C26_Witness ==
  /\ pc = "once" /\ resp.status = 200 /\ Len(req.batch) = MaxBatch
  /\ resp.updated = 1 /\ Len(resp.conflicts) = 1 /\ resp.inserted = 0
  /\ resp.conflicts[1].reason = "timestamp_parse_error"
  /\ \E i \in Reached : IncomingLater(i) /\ ~Acceptable(i)

\* C27: a POST /sync answered 500 persists none of the writes made for the
\* earlier records of its batch: the table is as it was before the request.
C27_AllOrNothing ==
  [][resp'.status = 500 => users' = users]_vars

C27_Witness ==
  /\ pc = "once" /\ resp.status = 500 /\ users = users0
  /\ Len(resp.steps) = MaxBatch
  /\ resp.steps[1].dec = "insert" /\ resp.steps[1].after # {}
  /\ ~Has(req.batch[MaxBatch], "id")

\* C29 (as stated): a record is reported as timestamp_parse_error only when
\* its incoming or local updated_at failed to parse or the two could not be
\* compared, never when the write of its update failed.
C29_ReasonAccuracy ==
  pc # "ready" =>
    \A i \in Reached : resp.steps[i].dec = "timestamp_parse_error" => Unparseable(i)

\* every order in which the records of batch b can arrive
Orderings(b) ==
  {[i \in 1..Len(b) |-> b[q[i]]] :
     q \in {f \in [1..Len(b) -> 1..Len(b)] :
              \A i, j \in 1..Len(b) : f[i] = f[j] => i = j}}

\* the records of b that are versions of id
Versions(b, id) == {i \in 1..Len(b) : Has(b[i], "id") /\ b[i].id = id}

\* what POST /sync answers b with on the table the request started from
Outcome(b) == receive_users_for_sync(users0, SYNC_TOKEN, b)

\* every record of b carries all keys and values the table accepts
Complete(b) ==
  \A i \in 1..Len(b) : b[i].keys = Columns /\ RowConstraints(InsertedRow(b[i]))

\* no username of b is held by another id, in the table or in b
UsernamesApart(b) ==
  \A i \in 1..Len(b) :
    /\ UsernameFree(users0, b[i].id, b[i].username)
    /\ \A j \in 1..Len(b) : b[j].id # b[i].id => b[j].username # b[i].username

\* the versions of id in b have timestamps that parse, compare with each
\* other and lie pairwise at least Tolerance seconds apart
VersionsApart(b, id) ==
  \A i, j \in Versions(b, id) :
    /\ Parses(b[i].updated_at)
    /\ Aware(b[i].updated_at) = Aware(b[j].updated_at)
    /\ i # j => Abs(b[i].updated_at.v - b[j].updated_at.v)
                  >= Tolerance * TicksPerSecond

\* the version of id in b with the greatest updated_at
Newest(b, id) ==
  b[CHOOSE i \in Versions(b, id) :
      \A j \in Versions(b, id) : b[i].updated_at.v >= b[j].updated_at.v]

\* C30 (as stated): for a batch with several versions of one id, the row
\* stored for that id after POST /sync is the same for every ordering of
\* the batch.
C30_OrderIndependent ==
  pc = "once" =>
    \A id \in 1..MaxBatch : Cardinality(Versions(req.batch, id)) >= 2 =>
      \A o \in Orderings(req.batch) : RowsOf(Outcome(o).db, id) = RowsOf(users, id)

\* C30 (amended): when every record of the batch is complete, no username
\* is shared between ids, and the versions of the id carry parsable,
\* comparable timestamps at least one second apart from each other, every
\* ordering of the batch is answered 200 and stores the same row for the id:
\* the newest version, or the row stored before when no version is at least
\* one second later than it (or its own timestamp cannot be compared).
C30_OrderIndependentApart ==
  pc = "once" =>
    \A id \in 1..MaxBatch :
      /\ Cardinality(Versions(req.batch, id)) >= 2
      /\ Complete(req.batch) /\ UsernamesApart(req.batch)
      /\ VersionsApart(req.batch, id)
      => \A o \in Orderings(req.batch) :
           /\ Outcome(o).resp.status = 200
           /\ RowsOf(Outcome(o).db, id) = RowsOf(users, id)
           /\ RowsOf(users, id) \in {RowsOf(users0, id),
                                     {UpdatedRow(Newest(req.batch, id))}}
           /\ id \notin DOMAIN users0 =>
                users[id] = InsertedRow(Newest(req.batch, id))
           /\ id \in DOMAIN users0 /\ users[id] = users0[id] =>
                \/ ~Parses(users0[id].updated_at)
                \/ Aware(users0[id].updated_at) # Aware(Newest(req.batch, id).updated_at)
                \/ Newest(req.batch, id).updated_at.v - users0[id].updated_at.v
                     < Tolerance * TicksPerSecond

C30_Witness ==
  /\ pc = "once" /\ resp.status = 200 /\ Len(req.batch) = MaxBatch
  /\ \E id \in DOMAIN users0 :
       /\ Cardinality(Versions(req.batch, id)) >= 2
       /\ Complete(req.batch) /\ UsernamesApart(req.batch)
       /\ VersionsApart(req.batch, id)
       /\ req.batch[1] = Newest(req.batch, id)
       /\ users[id] = UpdatedRow(req.batch[1])
       /\ users[id] # users0[id]
       /\ resp.steps[MaxBatch].dec = "local_newer"

\* the admin init_database created
DefaultAdmin(id) ==
  /\ id \in DOMAIN users \ DOMAIN users0
  /\ users[id].username = "admin" /\ users[id].ruolo = "admin"

\* C23 (as stated): after construction no row has a null updated_at, the
\* default admin included; each row that had a null updated_at carries its
\* created_at there; rows with a non-null updated_at are unchanged.
C23_Backfill ==
  pc = "serving" =>
    /\ \A id \in DOMAIN users : users[id].updated_at # NullTs
    /\ \A id \in DOMAIN users0 :
         IF users0[id].updated_at = NullTs
           THEN users[id] = [users0[id] EXCEPT !.updated_at = users0[id].created_at]
           ELSE users[id] = users0[id]
    /\ \A id \in DOMAIN users \ DOMAIN users0 :
         users[id].updated_at = users[id].created_at

\* C23 (amended): after construction no row has a null updated_at, the
\* default admin included; each row that had a null updated_at carries its
\* created_at there, or the current time when its created_at is null too;
\* rows with a non-null updated_at are unchanged and no row is removed.
C23_BackfillOrNow ==
  pc = "serving" =>
    /\ \A id \in DOMAIN users : users[id].updated_at # NullTs
    /\ \A id \in DOMAIN users0 :
         /\ id \in DOMAIN users
         /\ IF users0[id].updated_at # NullTs THEN users[id] = users0[id]
            ELSE IF users0[id].created_at # NullTs
              THEN users[id] = [users0[id] EXCEPT !.updated_at = users0[id].created_at]
            ELSE users[id] = [users0[id] EXCEPT !.updated_at = SqlNow(now)]
    /\ \A id \in DOMAIN users \ DOMAIN users0 :
         /\ DefaultAdmin(id)
         /\ users[id].updated_at = users[id].created_at
         /\ users[id].created_at = SqlNow(now)

C23_Witness ==
  /\ pc = "serving"
  /\ \E id \in DOMAIN users \ DOMAIN users0 : DefaultAdmin(id)
  /\ \E id \in DOMAIN users0 :
       /\ users0[id].updated_at = NullTs /\ users0[id].created_at = NullTs
       /\ users[id].updated_at = SqlNow(now)
  /\ \E id \in DOMAIN users0 :
       /\ users0[id].updated_at = NullTs /\ users0[id].created_at # NullTs
       /\ users[id].updated_at = users0[id].created_at

\* C24 (as stated): starting with at least one admin, after any interleaving
\* of delete_user calls on separate connections a row with role admin
\* remains; a delete_user that would remove the only admin is refused and
\* changes nothing.
C24_LastAdminKept ==
  /\ [](AdminCount(users) >= 1)
  /\ [][\A t \in Threads :
          /\ deleting[t].at = "read" /\ deleting'[t].at = "done"
          /\ deleting[t].user_id \in DOMAIN users
          /\ users[deleting[t].user_id].ruolo = "admin"
          /\ AdminCount(users) = 1
          => deleting'[t].result = "refused" /\ users' = users]_vars

\* C28 (as stated): the next batch that contains the id of a user deleted on
\* this node re-creates it here, whatever the timestamps; the peer never
\* loses the record, and after the cycle both nodes hold it.
C28_DeleteUndone ==
  /\ [][PullMerge => \A id \in Gone : id \in DOMAIN users']_vars
  /\ [][DOMAIN peer \subseteq DOMAIN peer']_vars
  /\ [](pc = "pushed" => /\ DOMAIN users0 \subseteq DOMAIN users
                         /\ DOMAIN users0 \subseteq DOMAIN peer)

\* C28 (amended): a batch that contains the id of a user deleted on this
\* node and is answered 200 re-creates it here with the columns of the batch,
\* whatever the timestamps; when the table refuses an INSERT of the batch
\* (the username was registered again under another id) the request is
\* answered 500 and nothing is re-created.  The peer never loses or changes
\* the record, and after a cycle whose pull succeeded both nodes hold it.
C28_DeleteUndoneWhenAccepted ==
  /\ [][PullMerge =>
          IF resp'.status = 200
            THEN \A id \in Gone :
                   id \in DOMAIN users' /\ users'[id] = InsertedRow(RowDict(peer, id))
            ELSE /\ resp'.status = 500 /\ users' = users
                 /\ \E id \in Gone : ~UsernameFree(users, id, peer[id].username)]_vars
  /\ [][/\ DOMAIN peer \subseteq DOMAIN peer'
        /\ \A id \in Gone : peer'[id] = peer[id]]_vars
  /\ [](pc = "pushed" =>
          /\ DOMAIN users0 \subseteq DOMAIN peer
          /\ \/ \A id \in DOMAIN users0 : id \in DOMAIN users /\ users[id] = peer[id]
             \/ \E id \in Gone : ~UsernameFree(users, id, peer[id].username))

C28_Witness ==
  /\ pc = "pulled" /\ req.op = "PULL"
  /\ resp.status = 200 /\ resp.inserted = 1
  /\ \E i \in Reached :
       /\ resp.steps[i].dec = "insert"
       /\ req.batch[i].id \in DOMAIN users0
       /\ IncomingTs(i) = NullTs
       /\ users[req.batch[i].id] = peer[req.batch[i].id]
  /\ users = users0

\* C21: at most one sync cycle is running on a node at any time; when the
\* interval fires while a cycle is running, the firing is remembered and the
\* next cycle starts only after the current one has completed.
C21_NoOverlap ==
  /\ [](sched.running <= 1)
  /\ [][sched'.running > sched.running =>
          sched.running = 0 /\ sched.phase = "idle" /\ sched.due]_vars
  /\ [][sched.running = 1 /\ ~sched.due /\ sched'.due =>
          sched'.running = 1 /\ sched'.phase = sched.phase]_vars

C21_Witness ==
  /\ sched.running = 1 /\ sched.phase = "push" /\ sched.due
  /\ users # users0

C1_AuthGate ==
  [][req'.op \in {"GET", "POST"} /\ req'.token # SYNC_TOKEN =>
       /\ resp'.status = 401
       /\ ~resp'.opened
       /\ resp'.users = {}
       /\ users' = users]_vars

C1_Witness ==
  /\ req.op = "POST" /\ req.token = NULL /\ resp.status = 401
  /\ Len(req.batch) = MaxBatch
  /\ receive_users_for_sync(users, SYNC_TOKEN, req.batch).resp.status = 200
  /\ receive_users_for_sync(users, SYNC_TOKEN, req.batch).db # users

\* a successful register_user stored one new row, stamped with the current time
Registered ==
  \E id \in DOMAIN users' \ DOMAIN users :
    /\ users'[id].updated_at = SqlNow(now)
    /\ \A j \in DOMAIN users : users'[j] = users[j]

\* a successful update_user edited the row id and stamped it with the current time
Edited(id) ==
  /\ DOMAIN users' = DOMAIN users
  /\ users'[id].updated_at = SqlNow(now)
  /\ \A j \in DOMAIN users \ {id} : users'[j] = users[j]

\* C17 (as stated): a successful register_user stores the new row with
\* updated_at set to the current time and a successful update_user sets the
\* edited row's updated_at to the current time, so the edit is never ordered
\* before the version it replaced.
C17_LocalEditOrderedAfter ==
  [][/\ RegisterUser /\ resp'.status = 200 => Registered
     /\ UpdateUser /\ resp'.status = 200 =>
          \E id \in DOMAIN users :
            /\ Edited(id)
            /\ Parses(users[id].updated_at) =>
                 users'[id].updated_at.v >= users[id].updated_at.v]_vars

\* C17 (amended): both calls stamp the row with the current time in whole
\* seconds; the edit is ordered at or after the version it replaced exactly
\* when that version's updated_at is not later than this stamp.
C17_LocalEditRefreshes ==
  [][/\ RegisterUser /\ resp'.status = 200 => Registered
     /\ UpdateUser /\ resp'.status = 200 =>
          \E id \in DOMAIN users :
            /\ Edited(id)
            /\ Parses(users[id].updated_at) =>
                 (users'[id].updated_at.v >= users[id].updated_at.v
                    <=> users[id].updated_at.v <= SqlNow(now).v)]_vars

C17_Witness ==
  /\ req.op = "update" /\ resp.status = 200 /\ now > 0
  /\ \E id \in DOMAIN users :
       /\ users[id].nome = "nomeU"
       /\ users[id].updated_at = SqlNow(now)
       /\ users[id].created_at.v < now

\* C18: a successful login changes last_login of the user's row and adds one
\* session; updated_at, every other field and every other row are unchanged.
\* A failed login changes neither table.
C18_LoginFrame ==
  [][Login =>
       IF resp'.status = 200
         THEN /\ Len(sessions') = Len(sessions) + 1
              /\ DOMAIN users' = DOMAIN users
              /\ \E id \in DOMAIN users :
                   /\ sessions' = Append(sessions, id)
                   /\ users'[id] = [users[id] EXCEPT !.last_login = users'[id].last_login]
                   /\ \A j \in DOMAIN users \ {id} : users'[j] = users[j]
         ELSE users' = users /\ sessions' = sessions]_vars

C18_Witness ==
  /\ req.op = "login" /\ resp.status = 200 /\ Len(sessions) = 1
  /\ users[sessions[1]].last_login.k = "sql"
  /\ users[sessions[1]].last_login.v > users[sessions[1]].updated_at.v

\* C19: POST /sync with a valid token and an empty users list is answered 400
\* without opening the database; the table is as it was.
C19_EmptyBatch ==
  [][req'.op = "POST" /\ req'.token = SYNC_TOKEN /\ req'.batch = <<>> =>
       /\ resp'.status = 400
       /\ ~resp'.opened
       /\ users' = users]_vars

C19_Witness ==
  /\ req.op = "POST" /\ req.token = SYNC_TOKEN /\ req.batch = <<>>
  /\ resp.status = 400 /\ ~resp.opened
  /\ Cardinality(DOMAIN users) = MaxRowId

\* C20: GET /sync with a valid token returns exactly one entry per stored
\* row, with every column of the row (password_hash included); count is the
\* number of entries and the table is as it was.
C20_FullRecordSet ==
  [][req'.op = "GET" /\ req'.token = SYNC_TOKEN =>
       /\ resp'.status = 200
       /\ users' = users
       /\ resp'.count = Cardinality(resp'.users)
       /\ resp'.count = Cardinality(DOMAIN users)
       /\ \A u \in resp'.users : u.id \in DOMAIN users /\ u.keys = Columns
       /\ \A id \in DOMAIN users : \E u \in resp'.users :
            /\ u.id = id
            /\ u.username = users[id].username
            /\ u.password_hash = users[id].password_hash
            /\ u.nome = users[id].nome /\ u.cognome = users[id].cognome
            /\ u.ruolo = users[id].ruolo
            /\ u.created_at = users[id].created_at
            /\ u.last_login = users[id].last_login
            /\ u.updated_at = users[id].updated_at]_vars

C20_Witness ==
  /\ req.op = "GET" /\ req.token = SYNC_TOKEN /\ resp.status = 200
  /\ resp.count = MaxRowId
  /\ \E u, w \in resp.users : u.password_hash = "hashR" /\ w.password_hash = "hashA"

\* C7 (as stated): every record GET /sync returns has a non-null updated_at,
\* and no merge stores a record with a null updated_at.
C7_NonNullUpdatedAt ==
  /\ \A id \in DOMAIN users : users[id].updated_at # NullTs
  /\ req.op = "GET" => \A user \in resp.users : user.updated_at # NullTs

\* the ids both nodes hold in versions that differ in updated_at only, the
\* node's own version being a (its table when the cycle started) and the
\* peer's b, both timestamps parsing to datetimes that can be subtracted
Twins(a, b) ==
  {id \in DOMAIN a \cap DOMAIN b :
     /\ [a[id] EXCEPT !.updated_at = NullTs] = [b[id] EXCEPT !.updated_at = NullTs]
     /\ a[id].updated_at # b[id].updated_at
     /\ Parses(a[id].updated_at) /\ Parses(b[id].updated_at)
     /\ Aware(a[id].updated_at) = Aware(b[id].updated_at)}

\* the version with the greater updated_at
Newer(x, y) == IF x.updated_at.v >= y.updated_at.v THEN x ELSE y

Apart(x, y) == Abs(x.updated_at.v - y.updated_at.v) >= Tolerance * TicksPerSecond

\* C10 (as stated): after one bidirectional cycle both nodes hold the
\* version with the greater updated_at, for every pair of timestamps.
C10_Convergence ==
  [][pc = "pulled" /\ pc' = "pushed" =>
       \A id \in Twins(users0, peer) :
         /\ users'[id] = Newer(users0[id], peer[id])
         /\ peer'[id] = Newer(users0[id], peer[id])]_vars

\* C10 (amended): for versions of an id that differ only in updated_at, both
\* timestamps parsing: when they lie at least one second apart, each node
\* whose merge is answered 200 holds the version with the greater updated_at
\* afterwards, and a node whose merge is answered 500 keeps its table; when
\* they lie less than one second apart each node keeps its own version.
C10_ConvergenceApart ==
  [][/\ pc = "start" /\ pc' = "pulled" =>
          /\ resp'.status \in {200, 500}
          /\ resp'.status = 500 => users' = users
          /\ \A id \in Twins(users, peer) :
               IF ~Apart(users[id], peer[id]) THEN users'[id] = users[id]
               ELSE resp'.status = 200 => users'[id] = Newer(users[id], peer[id])
     /\ pc = "pulled" /\ pc' = "pushed" =>
          /\ resp'.status \in {200, 500}
          /\ resp'.status = 500 => peer' = peer
          /\ \A id \in Twins(users0, peer) :
               IF ~Apart(users0[id], peer[id]) THEN peer'[id] = peer[id]
               ELSE resp'.status = 200 => peer'[id] = Newer(users0[id], peer[id])]_vars

C10_Witness ==
  /\ pc = "pushed" /\ resp.status = 200
  /\ \E id \in DOMAIN users0 \cap DOMAIN users \cap DOMAIN peer :
       /\ users[id] = peer[id]
       /\ users[id].updated_at.v = users0[id].updated_at.v + Tolerance * TicksPerSecond
       /\ [users[id] EXCEPT !.updated_at = NullTs] = [users0[id] EXCEPT !.updated_at = NullTs]
       /\ Parses(users0[id].updated_at)

====
